---- MODULE Spec2Model ----
(***************************************************************************)
(* A model of BlueALSA's src/dbus.c: the D-Bus method call dispatcher      *)
(* (g_dbus_dispatch_method_call and its detached worker), the interface    *)
(* skeleton adapter that forwards incoming calls to it, the skeleton's     *)
(* construction and teardown, and the helpers that emit PropertiesChanged  *)
(* and that block on GetManagedObjects, Get and Set.                       *)
(*                                                                         *)
(* The delivery thread (the GLib main loop) handles one incoming call at a *)
(* time; its position is pc.  Every pthread created by the dispatcher is a *)
(* process of its own, identified by the call that created it.             *)
(***************************************************************************)
EXTENDS Naturals, Sequences, FiniteSets

\* --------------------------------------------------------------- bounds

\* Number of method calls the bus delivers in one behaviour.
MaxCalls == 2

\* Number of dispatchers in a table, the NULL-handler terminator excluded.
MaxTable == 2

\* ------------------------------------------------------------ constants

\* The C NULL pointer, for strings and for the objects of the helpers.
NULL == "NULL"

\* The NULL function pointer (the handler of the terminating dispatcher).
NULL_HANDLER == 0

\* The strings an incoming call carries for sender, path, interface, method.
Names == {"a", "b"}

\* What a dispatcher's matcher field may hold: NULL or a string.
Matchers == {NULL, "a"}

\* The userdata pointer the skeleton was constructed with.
Userdata == "ctx"

VARIABLES
    iface,        \* the GDBusInterfaceSkeletonEx: vtable.dispatchers, userdata
    ncalls,       \* how many calls the bus will deliver in this behaviour
    delivered,    \* how many it has delivered; call k carries invocation k
    pc,           \* where the delivery thread is
    args,         \* the arguments of the g_dbus_dispatch_method_call in progress
    returned,     \* per call: the values g_dbus_dispatch_method_call returned
    outcome,      \* per call: which return statement the dispatcher took
    errlog,       \* per call: error() lines the adapter logged
    launches,     \* per call: pthread_create attempts
    thread,       \* per call: the state of the pthread created for it
    jobs,         \* per call: the g_memdup2'ed dispatch_method_caller_data
    hlog,         \* per call: the handler invocations made, with their arguments
    hstate,       \* per call: how far the invoked handler has got
    completions,  \* per invocation: who completed it, in order
    peer,         \* the remote object's property store
    hres,         \* the last blocking helper call: its inputs and its results
    trip,         \* how far a get, set, get sequence on one property has got
    skel          \* the skeleton object: its life cycle and attached data

dvars == <<iface, ncalls, delivered, pc, args, returned, outcome, errlog,
           launches, thread, jobs, hlog, hstate, completions, skel>>

hvars == <<peer, hres, trip>>

vars == <<iface, ncalls, delivered, pc, args, returned, outcome, errlog,
          launches, thread, jobs, hlog, hstate, completions, peer, hres,
          trip, skel>>

Calls == 1..MaxCalls

\* ------------------------------------------------------ the filter table

\* The terminating entry of a dispatcher table: handler == NULL.
Sentinel ==
    [sender |-> NULL, path |-> NULL, interface |-> NULL, method |-> NULL,
     handler |-> NULL_HANDLER, asynchronous_call |-> FALSE]

\* A dispatcher table: the given rules, the i-th with handler i, then the
\* terminator.
MkTable(rules) ==
    [i \in 1..(Len(rules) + 1) |->
        IF i <= Len(rules)
        THEN [sender |-> rules[i].sender, path |-> rules[i].path,
              interface |-> rules[i].interface, method |-> rules[i].method,
              handler |-> i, asynchronous_call |-> rules[i].asynchronous_call]
        ELSE Sentinel]

\* Every rule over the matchers, with the given asynchronous_call flag.
RulesWith(async) ==
    [sender : Matchers, path : Matchers, interface : Matchers,
     method : Matchers, asynchronous_call : {async}]

\* The rules that filter on the method name alone.
MethodRules ==
    [sender : {NULL}, path : {NULL}, interface : {NULL},
     method : Matchers, asynchronous_call : BOOLEAN]

TablesOver(rules) ==
    {MkTable(r) : r \in UNION {[1..k -> rules] : k \in 0..MaxTable}}

\* strcmp(a, b) != 0
StrDiffers_Inverted(a, b) == a = b

StrDiffers(a, b) == a # b

\* One of the four tests of the loop body: the entry is skipped when the
\* field is set and differs from the call's.
FieldRejects(field, value) == field # NULL /\ StrDiffers(field, value)

\* The for loop of g_dbus_dispatch_method_call from index i on: the index of
\* the dispatcher it stops at, 0 when it reaches the terminator.
RECURSIVE FindDispatcher(_, _, _, _, _, _)
FindDispatcher(dispatchers, i, sender, path, interface, method) ==
    IF dispatchers[i].handler = NULL_HANDLER THEN 0
    ELSE IF FieldRejects(dispatchers[i].sender, sender)
        THEN FindDispatcher(dispatchers, i + 1, sender, path, interface, method)
    ELSE IF FieldRejects(dispatchers[i].path, path)
        THEN FindDispatcher(dispatchers, i + 1, sender, path, interface, method)
    ELSE IF FieldRejects(dispatchers[i].interface, interface)
        THEN FindDispatcher(dispatchers, i + 1, sender, path, interface, method)
    ELSE IF FieldRejects(dispatchers[i].method, method)
        THEN FindDispatcher(dispatchers, i + 1, sender, path, interface, method)
    ELSE i

\* The dispatcher the call in progress stops at.
Selected ==
    FindDispatcher(args.dispatchers, 1,
                   args.sender, args.path, args.interface, args.method)

\* if (!dispatcher->asynchronous_call) ... else ...
IsAsync_Inverted(d) == ~d.asynchronous_call

IsAsync(d) == d.asynchronous_call

\* return false, after the loop.
RetNoMatch_True == TRUE

RetNoMatch == FALSE

\* return false, when pthread_create failed.
RetCreateFailed_True == TRUE

RetCreateFailed == FALSE

\* return false, when pthread_detach failed.
RetDetachFailed == FALSE

\* return true, after the handler was called or the worker detached.
RetDispatched == TRUE

\* ----------------------------------------------------------------- Init

NoArgs ==
    [sender |-> NULL, path |-> NULL, interface |-> NULL, method |-> NULL,
     invocation |-> 0, dispatchers |-> <<Sentinel>>, userdata |-> NULL]

NoJob == [allocs |-> 0, frees |-> 0, data |-> <<>>]

\* No blocking helper has been called yet.
NoHelperCall ==
    [fn |-> "none", path |-> NULL, interface |-> NULL, property |-> NULL,
     value |-> NULL, props |-> {}, objects_in |-> <<>>,
     error_arg |-> NULL, reply |-> "none", ret |-> FALSE,
     value_out |-> <<>>, objects_out |-> <<>>, signals |-> <<>>,
     gerror |-> NULL,
     msg_new |-> 0, msg_unref |-> 0, rep_new |-> 0, rep_unref |-> 0]

\* No get, set, get sequence is under way.
NoTrip == [step |-> 0, property |-> NULL, first |-> NULL, last |-> NULL]

\* The properties of the remote object, and the values they take (a string,
\* an integer, a boolean).
PropNames == {"p", "q"}

PropValues == {"s:x", "i:1", "b:true"}

\* What g_dbus_connection_send_message_with_reply_sync comes back with: no
\* reply (the send or the wait failed), an error-typed reply, a method return.
Replies == {"transport_failure", "error_reply", "method_return"}

\* The GError ** a caller passes: NULL, or the address of its GError *.
ErrorArgs == {NULL, "&err"}

\* The arrays of managed objects a GetManagedObjects reply may carry.
ObjectArrays == {<<>>, <<"/o1">>, <<"/o1", "/o2">>}

\* The object paths, interface names and changed-property dictionaries
\* given to g_dbus_connection_emit_properties_changed.
Paths == {"/org/x", "/org/y"}

Interfaces == {"org.x.Iface", "org.y.Iface"}

PropBags == SUBSET {<<"Volume", "i:50">>, <<"Mute", "b:true">>}

\* The interface of the properties g_dbus_get_property and
\* g_dbus_set_property are called for.
PropInterface == "org.x.Iface"

DBUS_IFACE_PROPERTIES == "org.freedesktop.DBus.Properties"

DBUS_IFACE_OBJECT_MANAGER == "org.freedesktop.DBus.ObjectManager"

InitHelpers ==
    /\ peer \in [PropNames -> PropValues]
    /\ hres = NoHelperCall
    /\ trip = NoTrip

\* The skeleton g_dbus_interface_skeleton_ex_new returned: the object, with
\* the userdata attached under "_ud" together with its free function.
NewSkeleton_NoFreeFunc ==
    [state |-> "alive",
     data |-> <<[key |-> "_ud", ptr |-> Userdata, destroy |-> FALSE]>>,
     destroyed |-> 0, entered |-> {}]

NewSkeleton ==
    [state |-> "alive",
     data |-> <<[key |-> "_ud", ptr |-> Userdata, destroy |-> TRUE]>>,
     destroyed |-> 0, entered |-> {}]

InitDispatch(tables, n) ==
    /\ iface \in [vtable_dispatchers : tables, userdata : {Userdata}]
    /\ ncalls = n
    /\ delivered = 0
    /\ pc = "idle"
    /\ args = NoArgs
    /\ returned = [c \in Calls |-> <<>>]
    /\ outcome = [c \in Calls |-> "none"]
    /\ errlog = [c \in Calls |-> 0]
    /\ launches = [c \in Calls |-> 0]
    /\ thread = [c \in Calls |-> "none"]
    /\ jobs = [c \in Calls |-> NoJob]
    /\ hlog = [c \in Calls |-> <<>>]
    /\ hstate = [c \in Calls |-> "none"]
    /\ completions = [c \in Calls |-> <<>>]
    /\ skel = NewSkeleton

\* A skeleton whose table filters on the method name, MaxCalls calls.
Init ==
    /\ InitDispatch(TablesOver(MethodRules), MaxCalls)
    /\ peer = [p \in PropNames |-> "s:x"]
    /\ hres = NoHelperCall
    /\ trip = NoTrip

\* ------------------------------------------------- the delivery thread

\* The call the delivery thread is handling: its invocation handle.
cur == args.invocation

\* The skeleton after the bus toolkit entered one of the adapter's entry
\* points, which hands iface->userdata to the callback of the vtable.
Entered(entry) ==
    [skel EXCEPT !.entered = @ \cup {[entry |-> entry,
                                      userdata |-> iface.userdata]}]

\* The bus toolkit calls the adapter's method_call entry with a call
\* (sender, path, interface, method); the adapter enters
\* g_dbus_dispatch_method_call with the skeleton's table and userdata.
interface_skeleton_ex_method_call(s, p, f, m) ==
    /\ pc = "idle"
    /\ skel.state = "alive"
    /\ delivered < ncalls
    /\ delivered' = delivered + 1
    /\ args' = [sender |-> s, path |-> p, interface |-> f, method |-> m,
                invocation |-> delivered + 1,
                dispatchers |-> iface.vtable_dispatchers,
                userdata |-> iface.userdata]
    /\ pc' = "dispatch"
    /\ skel' = Entered("method_call")
    /\ UNCHANGED <<iface, ncalls, returned, outcome, errlog, launches,
                   thread, jobs, hlog, hstate, completions, peer, hres, trip>>

\* The loop ran to the terminator: return false.
DispatchNoMatch ==
    /\ pc = "dispatch"
    /\ Selected = 0
    /\ returned' = [returned EXCEPT ![cur] = Append(@, RetNoMatch)]
    /\ outcome' = [outcome EXCEPT ![cur] = "nomatch"]
    /\ pc' = "adapter"
    /\ UNCHANGED <<iface, ncalls, delivered, args, errlog, launches,
                   thread, jobs, hlog, hstate, completions, peer, hres, trip, skel>>

\* The matched dispatcher is synchronous: its handler is called on the
\* delivery thread with the call's invocation and userdata.
DispatchInline ==
    /\ pc = "dispatch"
    /\ Selected # 0
    /\ ~IsAsync(args.dispatchers[Selected])
    /\ hlog' = [hlog EXCEPT ![cur] =
                    Append(@, [handler |-> args.dispatchers[Selected].handler,
                               thread |-> "main",
                               invocation |-> args.invocation,
                               userdata |-> args.userdata])]
    /\ hstate' = [hstate EXCEPT ![cur] = "running"]
    /\ pc' = "inline"
    /\ UNCHANGED <<iface, ncalls, delivered, args, returned, outcome,
                   errlog, launches, thread, jobs, completions, peer, hres, trip, skel>>

\* The synchronous handler returns; the dispatcher returns true.
InlineHandlerReturn ==
    /\ pc = "inline"
    /\ hstate[cur] = "handled"
    /\ hstate' = [hstate EXCEPT ![cur] = "returned"]
    /\ returned' = [returned EXCEPT ![cur] = Append(@, RetDispatched)]
    /\ outcome' = [outcome EXCEPT ![cur] = "inline"]
    /\ pc' = "adapter"
    /\ UNCHANGED <<iface, ncalls, delivered, args, errlog, launches,
                   thread, jobs, hlog, completions, peer, hres, trip, skel>>

\* The data the dispatcher copies to the heap for the worker.
CallerData ==
    [handler |-> args.dispatchers[Selected].handler,
     invocation |-> args.invocation,
     userdata |-> args.userdata]

\* The matched dispatcher is asynchronous: g_memdup2 of the caller data, and
\* pthread_create succeeds.
DispatchCreate ==
    /\ pc = "dispatch"
    /\ Selected # 0
    /\ IsAsync(args.dispatchers[Selected])
    /\ jobs' = [jobs EXCEPT ![cur] =
                    [allocs |-> @.allocs + 1, frees |-> @.frees,
                     data |-> <<CallerData>>]]
    /\ launches' = [launches EXCEPT ![cur] = @ + 1]
    /\ thread' = [thread EXCEPT ![cur] = "created"]
    /\ pc' = "detach"
    /\ UNCHANGED <<iface, ncalls, delivered, args, returned, outcome,
                   errlog, hlog, hstate, completions, peer, hres, trip, skel>>

\* The same, and pthread_create fails: no thread, return false.  The copy
\* is not freed.
DispatchCreateFails ==
    /\ pc = "dispatch"
    /\ Selected # 0
    /\ IsAsync(args.dispatchers[Selected])
    /\ jobs' = [jobs EXCEPT ![cur] =
                    [allocs |-> @.allocs + 1, frees |-> @.frees,
                     data |-> <<CallerData>>]]
    /\ launches' = [launches EXCEPT ![cur] = @ + 1]
    /\ returned' = [returned EXCEPT ![cur] = Append(@, RetCreateFailed)]
    /\ outcome' = [outcome EXCEPT ![cur] = "create_failed"]
    /\ pc' = "adapter"
    /\ UNCHANGED <<iface, ncalls, delivered, args, errlog, thread,
                   hlog, hstate, completions, peer, hres, trip, skel>>

\* A variant that waits for the worker (pthread_join) where the code
\* detaches it.
DispatchJoin ==
    /\ pc = "detach"
    /\ thread[cur] = "exited"
    /\ returned' = [returned EXCEPT ![cur] = Append(@, RetDispatched)]
    /\ outcome' = [outcome EXCEPT ![cur] = "launched"]
    /\ pc' = "adapter"
    /\ UNCHANGED <<iface, ncalls, delivered, args, errlog, launches,
                   thread, jobs, hlog, hstate, completions, peer, hres, trip, skel>>

\* A variant that cancels a thread that has not yet called its handler.
DispatchDetachCancels ==
    /\ pc = "detach"
    /\ returned' = [returned EXCEPT ![cur] = Append(@, RetDispatched)]
    /\ outcome' = [outcome EXCEPT ![cur] = "launched"]
    /\ thread' = [thread EXCEPT ![cur] =
                      IF @ = "created" THEN "cancelled" ELSE @]
    /\ pc' = "adapter"
    /\ UNCHANGED <<iface, ncalls, delivered, args, errlog, launches,
                   jobs, hlog, hstate, completions, peer, hres, trip, skel>>

\* pthread_detach succeeds: the dispatcher returns true, whatever the worker
\* is doing.
DispatchDetach ==
    /\ pc = "detach"
    /\ returned' = [returned EXCEPT ![cur] = Append(@, RetDispatched)]
    /\ outcome' = [outcome EXCEPT ![cur] = "launched"]
    /\ pc' = "adapter"
    /\ UNCHANGED <<iface, ncalls, delivered, args, errlog, launches,
                   thread, jobs, hlog, hstate, completions, peer, hres, trip, skel>>

\* pthread_detach fails: return false.  The worker exists and runs on.
DispatchDetachFails ==
    /\ pc = "detach"
    /\ returned' = [returned EXCEPT ![cur] = Append(@, RetDetachFailed)]
    /\ outcome' = [outcome EXCEPT ![cur] = "detach_failed"]
    /\ pc' = "adapter"
    /\ UNCHANGED <<iface, ncalls, delivered, args, errlog, launches,
                   thread, jobs, hlog, hstate, completions, peer, hres, trip, skel>>

\* The adapter, after the dispatcher returned: it logs an error when the
\* result is false, and returns to the main loop.
MethodCallReturn ==
    /\ pc = "adapter"
    /\ errlog' = [errlog EXCEPT ![cur] =
                    IF returned[cur][Len(returned[cur])] THEN @ ELSE @ + 1]
    /\ pc' = "idle"
    /\ UNCHANGED <<iface, ncalls, delivered, args, returned, outcome,
                   launches, thread, jobs, hlog, hstate, completions, peer,
                   hres, trip, skel>>

\* ------------------------------------------------------------ the worker

\* A variant whose thread is handed the address of the dispatcher's own
\* data instead of the copy on the heap.
WorkerData_Shared(c) ==
    [handler |-> jobs[c].data[1].handler,
     invocation |-> args.invocation,
     userdata |-> args.userdata]

\* The data the thread of call c was created with: the copy made for it.
WorkerData(c) == jobs[c].data[1]

\* A variant whose workers take a lock around the handler: a worker waits
\* while the handler of another call is running.
WorkerCallsHandlerLocked(c) ==
    /\ thread[c] = "created"
    /\ jobs[c].data # <<>>
    /\ \A d \in Calls \ {c} : hstate[d] # "running"
    /\ hlog' = [hlog EXCEPT ![c] =
                    Append(@, [handler |-> WorkerData(c).handler,
                               thread |-> "worker",
                               invocation |-> WorkerData(c).invocation,
                               userdata |-> WorkerData(c).userdata])]
    /\ hstate' = [hstate EXCEPT ![c] = "running"]
    /\ thread' = [thread EXCEPT ![c] = "running"]
    /\ UNCHANGED <<iface, ncalls, delivered, pc, args, returned, outcome,
                   errlog, launches, jobs, completions, peer, hres, trip, skel>>

\* dispatch_method_caller starts on its thread and calls the handler with
\* the invocation and userdata of its data.
WorkerCallsHandler(c) ==
    /\ thread[c] = "created"
    /\ jobs[c].data # <<>>
    /\ hlog' = [hlog EXCEPT ![c] =
                    Append(@, [handler |-> WorkerData(c).handler,
                               thread |-> "worker",
                               invocation |-> WorkerData(c).invocation,
                               userdata |-> WorkerData(c).userdata])]
    /\ hstate' = [hstate EXCEPT ![c] = "running"]
    /\ thread' = [thread EXCEPT ![c] = "running"]
    /\ UNCHANGED <<iface, ncalls, delivered, pc, args, returned, outcome,
                   errlog, launches, jobs, completions, peer, hres, trip, skel>>

\* The handler returned: g_free(data), return NULL, the thread ends.
WorkerFinish(c) ==
    /\ thread[c] = "running"
    /\ hstate[c] = "handled"
    /\ hstate' = [hstate EXCEPT ![c] = "returned"]
    /\ jobs' = [jobs EXCEPT ![c] =
                    [allocs |-> @.allocs, frees |-> @.frees + 1, data |-> <<>>]]
    /\ thread' = [thread EXCEPT ![c] = "exited"]
    /\ UNCHANGED <<iface, ncalls, delivered, pc, args, returned, outcome,
                   errlog, launches, hlog, completions, peer, hres, trip, skel>>

\* ----------------------------------------------------------- the handler

\* An application handler, on whichever thread it runs, completes the
\* invocation it was given, once.
HandlerCompletes(c) ==
    /\ hstate[c] = "running"
    /\ completions' = [completions EXCEPT ![hlog[c][Len(hlog[c])].invocation] =
                          Append(@, "handler")]
    /\ hstate' = [hstate EXCEPT ![c] = "handled"]
    /\ UNCHANGED <<iface, ncalls, delivered, pc, args, returned, outcome,
                   errlog, launches, thread, jobs, hlog, peer, hres, trip, skel>>

\* ------------------------------------------------------ specifications

Next ==
    \/ \E s \in Names, p \in Names, f \in Names, m \in Names :
           interface_skeleton_ex_method_call(s, p, f, m)
    \/ DispatchNoMatch
    \/ DispatchInline
    \/ InlineHandlerReturn
    \/ DispatchCreate
    \/ DispatchCreateFails
    \/ DispatchDetach
    \/ DispatchDetachFails
    \/ MethodCallReturn
    \/ \E c \in Calls : WorkerCallsHandler(c)
    \/ \E c \in Calls : WorkerFinish(c)
    \/ \E c \in Calls : HandlerCompletes(c)

Spec == Init /\ [][Next]_vars

\* The same program with calls that differ in their method only, and workers
\* that are scheduled fairly: a thread that can take its next step
\* eventually takes it.
NextFair ==
    \/ \E m \in Names : interface_skeleton_ex_method_call("a", "a", "a", m)
    \/ DispatchNoMatch
    \/ DispatchInline
    \/ InlineHandlerReturn
    \/ DispatchCreate
    \/ DispatchCreateFails
    \/ DispatchDetach
    \/ DispatchDetachFails
    \/ MethodCallReturn
    \/ \E c \in Calls : WorkerCallsHandler(c)
    \/ \E c \in Calls : WorkerFinish(c)
    \/ \E c \in Calls : HandlerCompletes(c)

\* A skeleton whose table has one rule, filtering on the method name or
\* not at all, synchronous or asynchronous; MaxCalls calls.
InitFair ==
    /\ InitDispatch({MkTable(<<r>>) : r \in MethodRules}, MaxCalls)
    /\ peer = [p \in PropNames |-> "s:x"]
    /\ hres = NoHelperCall
    /\ trip = NoTrip

SpecFair ==
    /\ InitFair
    /\ [][NextFair]_vars
    /\ \A c \in Calls : WF_vars(WorkerCallsHandler(c))
    /\ \A c \in Calls : WF_vars(WorkerFinish(c))

\* One call on a skeleton whose table is any table over the matchers, its
\* rules all synchronous or all asynchronous.
InitMatch ==
    /\ InitDispatch(TablesOver(RulesWith(FALSE)) \cup TablesOver(RulesWith(TRUE)), 1)
    /\ peer = [p \in PropNames |-> "s:x"]
    /\ hres = NoHelperCall
    /\ trip = NoTrip

SpecMatch == InitMatch /\ [][Next]_vars

\* ------------------------------------------- the skeleton's life cycle

\* return iface->vtable.get_property(property, error, iface->userdata);
interface_skeleton_ex_get_property ==
    /\ pc = "idle"
    /\ skel.state = "alive"
    /\ skel' = Entered("get_property")
    /\ UNCHANGED <<iface, ncalls, delivered, pc, args, returned, outcome,
                   errlog, launches, thread, jobs, hlog, hstate, completions,
                   peer, hres, trip>>

\* return iface->vtable.set_property(property, value, error, iface->userdata);
interface_skeleton_ex_set_property ==
    /\ pc = "idle"
    /\ skel.state = "alive"
    /\ skel' = Entered("set_property")
    /\ UNCHANGED <<iface, ncalls, delivered, pc, args, returned, outcome,
                   errlog, launches, thread, jobs, hlog, hstate, completions,
                   peer, hres, trip>>

\* return iface->vtable.get_properties(iface->userdata);
g_dbus_interface_skeleton_ex_class_get_properties ==
    /\ pc = "idle"
    /\ skel.state = "alive"
    /\ skel' = Entered("get_properties")
    /\ UNCHANGED <<iface, ncalls, delivered, pc, args, returned, outcome,
                   errlog, launches, thread, jobs, hlog, hstate, completions,
                   peer, hres, trip>>

\* How many of the object's data carry a destroy notify.
RECURSIVE DestroyNotifies(_)
DestroyNotifies(data) ==
    IF data = <<>> THEN 0
    ELSE (IF data[1].destroy THEN 1 ELSE 0) + DestroyNotifies(Tail(data))

\* The last reference to the skeleton is dropped between two deliveries:
\* the object is finalized and the destroy notify of each of its data runs
\* on the pointer it was attached with.
g_object_unref ==
    /\ pc = "idle"
    /\ skel.state = "alive"
    /\ skel' = [skel EXCEPT !.state = "finalized",
                            !.destroyed = @ + DestroyNotifies(skel.data),
                            !.data = <<>>]
    /\ UNCHANGED <<iface, ncalls, delivered, pc, args, returned, outcome,
                   errlog, launches, thread, jobs, hlog, hstate, completions,
                   peer, hres, trip>>

NextSkeleton ==
    \/ Next
    \/ interface_skeleton_ex_get_property
    \/ interface_skeleton_ex_set_property
    \/ g_dbus_interface_skeleton_ex_class_get_properties
    \/ g_object_unref

\* One call on a skeleton whose table filters on the method name.
InitSkeleton ==
    /\ InitDispatch(TablesOver(MethodRules), 1)
    /\ peer = [p \in PropNames |-> "s:x"]
    /\ hres = NoHelperCall
    /\ trip = NoTrip

SpecSkeleton == InitSkeleton /\ [][NextSkeleton]_vars

\* ---------------------------------------------------- blocking helpers

\* What the caller's GError * holds after the call: set by the send on a
\* transport failure and by g_dbus_message_to_gerror on an error reply, and
\* only when the caller passed somewhere to store it.
GErrorAfter(error_arg, reply) ==
    IF error_arg = NULL THEN NULL
    ELSE IF reply = "transport_failure" THEN "G_IO_ERROR"
    ELSE IF reply = "error_reply" THEN "G_DBUS_ERROR"
    ELSE NULL

\* rep, as g_dbus_connection_send_message_with_reply_sync returns it.
ReplyMessage(reply) == IF reply = "transport_failure" THEN NULL ELSE "rep"

\* A variant of the fail label that leaves the objects alone.
Unrefs_Never(obj) == 0

\* if (obj != NULL) g_object_unref(obj);
Unrefs(obj) == IF obj # NULL THEN 1 ELSE 0

\* The body of the Set request: g_variant_new("(ssv)", interface, property,
\* value).
SetBody_StaleValue(property, value) == <<PropInterface, property, "s:x">>

SetBody(property, value) == <<PropInterface, property, value>>

\* The body of the Get request: g_variant_new("(ss)", interface, property).
GetBody(property) == <<PropInterface, property>>

\* The peer's answer to a Get request: "(v)", the value it stores.
GetReplyBody(body) == <<peer[body[2]]>>

\* The peer's store after it answered a Set request with a method return.
PeerAfterSet(body) == [peer EXCEPT ![body[2]] = body[3]]

\* The sequence of helper calls seen so far, as far as a get, a set of the
\* value got and a second get on the same property are concerned; h is the
\* call just made.
TripAfter(h) ==
    IF h.fn = "get" /\ Len(h.value_out) = 1
    THEN IF trip.step = 2 /\ trip.property = h.property
         THEN [trip EXCEPT !.step = 3, !.last = h.value_out[1]]
         ELSE [step |-> 1, property |-> h.property,
               first |-> h.value_out[1], last |-> NULL]
    ELSE IF /\ h.fn = "set"
            /\ trip.step = 1
            /\ h.property = trip.property
            /\ h.value = trip.first
         THEN [trip EXCEPT !.step = 2]
         ELSE NoTrip

\* return error == NULL;
SetPropertyResult(error_arg, reply) == error_arg = NULL

\* g_dbus_set_property(conn, service, path, interface, property, value,
\* error): builds the Set message, sends it and waits; at the fail label it
\* unrefs the message and, when there is one, the reply.  The peer stores
\* the value when it answers with a method return.
g_dbus_set_property(property, value, error_arg, reply) ==
    LET msg == "msg"
        rep == ReplyMessage(reply)
        h == [fn |-> "set", path |-> NULL, interface |-> PropInterface,
              property |-> property, value |-> value,
              props |-> {}, objects_in |-> <<>>,
              error_arg |-> error_arg, reply |-> reply,
              ret |-> SetPropertyResult(error_arg, reply),
              value_out |-> <<>>, objects_out |-> <<>>, signals |-> <<>>,
              gerror |-> GErrorAfter(error_arg, reply),
              msg_new |-> 1, msg_unref |-> Unrefs(msg),
              rep_new |-> IF rep # NULL THEN 1 ELSE 0,
              rep_unref |-> Unrefs(rep)]
    IN  /\ pc = "idle"
        /\ peer' = IF reply = "method_return"
                   THEN PeerAfterSet(SetBody(property, value))
                   ELSE peer
        /\ hres' = h
        /\ trip' = TripAfter(h)
        /\ UNCHANGED dvars

\* A variant that hands back a default value when there is no usable reply.
GetPropertyValue_Default(reply, body) ==
    IF reply = "method_return" THEN <<body[1]>> ELSE <<"s:x">>

\* The value g_dbus_get_property returns (<<>>: NULL): NULL when there is no
\* reply or the reply is an error, else the variant of the "(v)" body.
GetPropertyValue(reply, body) ==
    IF ReplyMessage(reply) = NULL THEN <<>>
    ELSE IF reply = "error_reply" THEN <<>>
    ELSE <<body[1]>>

\* g_dbus_get_property(conn, service, path, interface, property, error).
g_dbus_get_property(property, error_arg, reply) ==
    LET msg == "msg"
        rep == ReplyMessage(reply)
        h == [fn |-> "get", path |-> NULL, interface |-> PropInterface,
              property |-> property, value |-> NULL,
              props |-> {}, objects_in |-> <<>>,
              error_arg |-> error_arg, reply |-> reply, ret |-> FALSE,
              value_out |-> GetPropertyValue(reply,
                                             GetReplyBody(GetBody(property))),
              objects_out |-> <<>>, signals |-> <<>>,
              gerror |-> GErrorAfter(error_arg, reply),
              msg_new |-> 1, msg_unref |-> Unrefs(msg),
              rep_new |-> IF rep # NULL THEN 1 ELSE 0,
              rep_unref |-> Unrefs(rep)]
    IN  /\ pc = "idle"
        /\ hres' = h
        /\ trip' = TripAfter(h)
        /\ UNCHANGED <<peer, dvars>>

\* A variant that hands back no iterator for an empty array.
ManagedObjects_NullWhenEmpty(reply, body) ==
    IF reply = "method_return" /\ body[1] # <<>> THEN <<body[1]>> ELSE <<>>

\* The iterator g_dbus_get_managed_objects returns (<<>>: NULL), as the
\* sequence of the objects it yields: NULL when there is no reply or the
\* reply is an error, else an iterator over the array of the reply's body.
ManagedObjects(reply, body) ==
    IF ReplyMessage(reply) = NULL THEN <<>>
    ELSE IF reply = "error_reply" THEN <<>>
    ELSE <<body[1]>>

\* g_dbus_get_managed_objects(conn, name, path, error); objects is the
\* array the peer answers with when it answers with a method return.
g_dbus_get_managed_objects(objects, error_arg, reply) ==
    LET msg == "msg"
        rep == ReplyMessage(reply)
        h == [fn |-> "objects", path |-> NULL,
              interface |-> DBUS_IFACE_OBJECT_MANAGER,
              property |-> NULL, value |-> NULL,
              props |-> {}, objects_in |-> objects,
              error_arg |-> error_arg, reply |-> reply, ret |-> FALSE,
              value_out |-> <<>>,
              objects_out |-> ManagedObjects(reply, <<objects>>),
              signals |-> <<>>,
              gerror |-> GErrorAfter(error_arg, reply),
              msg_new |-> 1, msg_unref |-> Unrefs(msg),
              rep_new |-> IF rep # NULL THEN 1 ELSE 0,
              rep_unref |-> Unrefs(rep)]
    IN  /\ pc = "idle"
        /\ hres' = h
        /\ trip' = TripAfter(h)
        /\ UNCHANGED <<peer, dvars>>

\* A variant that lists the changed properties as invalidated too.
InvalidatedList_Changed(props) == {kv[1] : kv \in props}

\* The "as" of the signal's parameters, built from a NULL builder: empty.
InvalidatedList(props) == {}

\* The g_dbus_connection_emit_signal call of
\* g_dbus_connection_emit_properties_changed.
EmittedSignal(path, interface, props) ==
    [destination |-> NULL, path |-> path,
     interface_name |-> DBUS_IFACE_PROPERTIES,
     signal_name |-> "PropertiesChanged",
     parameters |-> <<interface, props, InvalidatedList(props)>>]

\* g_dbus_connection_emit_properties_changed(conn, path, interface, props,
\* error); emitted is what g_dbus_connection_emit_signal returns.
g_dbus_connection_emit_properties_changed(path, interface, props, error_arg, emitted) ==
    LET h == [fn |-> "emit", path |-> path, interface |-> interface,
              property |-> NULL, value |-> NULL,
              props |-> props, objects_in |-> <<>>,
              error_arg |-> error_arg,
              reply |-> IF emitted THEN "emitted" ELSE "emit_failed",
              ret |-> emitted,
              value_out |-> <<>>, objects_out |-> <<>>,
              signals |-> <<EmittedSignal(path, interface, props)>>,
              gerror |-> IF emitted \/ error_arg = NULL THEN NULL
                         ELSE "G_IO_ERROR",
              msg_new |-> 0, msg_unref |-> 0, rep_new |-> 0, rep_unref |-> 0]
    IN  /\ pc = "idle"
        /\ hres' = h
        /\ trip' = TripAfter(h)
        /\ UNCHANGED <<peer, dvars>>

NextHelpers ==
    \/ \E property \in PropNames, value \in PropValues,
          error_arg \in ErrorArgs, reply \in Replies :
           g_dbus_set_property(property, value, error_arg, reply)
    \/ \E property \in PropNames, error_arg \in ErrorArgs, reply \in Replies :
           g_dbus_get_property(property, error_arg, reply)
    \/ \E objects \in ObjectArrays, error_arg \in ErrorArgs,
          reply \in Replies :
           g_dbus_get_managed_objects(objects, error_arg, reply)
    \/ \E path \in Paths, interface \in Interfaces, props \in PropBags,
          error_arg \in ErrorArgs, emitted \in BOOLEAN :
           g_dbus_connection_emit_properties_changed(path, interface, props,
                                                     error_arg, emitted)

\* No incoming calls; a remote object with any property values.
InitHelperCalls ==
    /\ InitDispatch({MkTable(<<>>)}, 0)
    /\ InitHelpers

SpecHelpers == InitHelperCalls /\ [][NextHelpers]_vars

\* ------------------------------------------------------------ properties

\* The table of the skeleton, and its rules (the terminator excluded).
Table == iface.vtable_dispatchers

Rules == 1..(Len(Table) - 1)

\* A rule matches a call when each of its four fields is unset or equal to
\* the call's.
Matches(d, a) ==
    /\ d.sender = NULL \/ d.sender = a.sender
    /\ d.path = NULL \/ d.path = a.path
    /\ d.interface = NULL \/ d.interface = a.interface
    /\ d.method = NULL \/ d.method = a.method

\* The rules that match the call in progress, and the first of them in
\* table order (0: none).
Matching == {i \in Rules : Matches(Table[i], args)}

FirstMatching ==
    IF Matching = {} THEN 0
    ELSE CHOOSE i \in Matching : \A j \in Matching : i <= j

\* The dispatcher has decided about the call in progress.
Decided == delivered > 0 /\ pc # "dispatch"

\* The adapter's method_call has returned for call c.
AdapterDone(c) == c < delivered \/ (c = delivered /\ pc = "idle")

\* No worker of call c is alive.
NoWorker(c) == thread[c] \in {"none", "exited"}

\* C1: the dispatcher selects the first rule, in table order, whose four
\* fields are each unset or equal to the call's; only that rule's handler is
\* ever run for the call, at most once, on the main thread or on the worker;
\* no match is reported exactly when no rule matches, so a rule with all
\* four fields unset matches every call.
C1_FirstMatchWins ==
    Decided =>
        /\ \A j \in 1..Len(hlog[cur]) :
               /\ FirstMatching # 0
               /\ hlog[cur][j].handler = Table[FirstMatching].handler
        /\ Len(hlog[cur]) <= 1
        /\ jobs[cur].data # <<>> =>
               /\ FirstMatching # 0
               /\ jobs[cur].data[1].handler = Table[FirstMatching].handler
        /\ pc \in {"inline", "detach"} => FirstMatching # 0
        /\ (outcome[cur] = "nomatch") <=> (FirstMatching = 0)
        /\ outcome[cur] = "inline" => Len(hlog[cur]) = 1
        /\ (outcome[cur] = "launched" /\ thread[cur] = "exited")
               => Len(hlog[cur]) = 1
        /\ (\E i \in Rules :
                /\ Table[i].sender = NULL /\ Table[i].path = NULL
                /\ Table[i].interface = NULL /\ Table[i].method = NULL)
               => outcome[cur] # "nomatch"

\* C1's case: two rules match the call and the first one's handler has run
\* and returned.
C1_Witness ==
    /\ Decided
    /\ Cardinality(Matching) = 2
    /\ hlog[cur] # <<>>
    /\ hlog[cur][1].handler = Table[1].handler
    /\ hstate[cur] = "returned"

\* C2: when no rule matches the call, the dispatcher returns false, calls
\* no handler, creates no worker and no caller data, and leaves the
\* invocation uncompleted.
C2_NoMatchReturnsFalse ==
    (Decided /\ FirstMatching = 0) =>
        /\ pc \in {"return", "adapter", "idle"}
            /\ pc \in {"adapter", "idle"} => returned[cur] = <<FALSE>>
        /\ hlog[cur] = <<>>
        /\ hstate[cur] = "none"
        /\ launches[cur] = 0
        /\ thread[cur] = "none"
        /\ jobs[cur] = NoJob
        /\ completions[cur] = <<>>

\* C2's case: a table with rules, none of which matches, and the dispatcher
\* has returned.
C2_Witness ==
    /\ pc = "adapter"
    /\ Rules # {}
    /\ FirstMatching = 0

\* C3: once the adapter's method_call has returned for a call no rule
\* matched, the adapter has completed the invocation (with an unknown
\* method error).
C3_AdapterCompletesUnmatched ==
    \A c \in Calls :
        (AdapterDone(c) /\ outcome[c] = "nomatch") => Len(completions[c]) = 1

\* C4: g_dbus_set_property returns true exactly when a reply that is not an
\* error was received, whatever error pointer the caller passed.
C4_SetSucceedsIffReply ==
    hres.fn = "set" => (hres.ret <=> hres.reply = "method_return")

\* C5: every delivered invocation is completed exactly once: when the
\* adapter has returned for a call and no worker of it is left, the
\* invocation has been completed once; and it is never completed twice.
C5_CompletedExactlyOnce ==
    \A c \in Calls :
        /\ Len(completions[c]) <= 1
        /\ (AdapterDone(c) /\ NoWorker(c)) => Len(completions[c]) = 1

\* C6: when the dispatcher reports failure for a matched asynchronous rule
\* (pthread_create or pthread_detach failed), the handler is never called
\* for the call, the invocation stays uncompleted, and there was one launch
\* attempt.
C6_FailedLaunchRunsNothing ==
    \A c \in Calls :
        (outcome[c] \in {"create_failed", "detach_failed"}
            /\ returned[c] = <<FALSE>>) =>
            /\ hlog[c] = <<>>
            /\ completions[c] = <<>>
            /\ launches[c] = 1

InlineCase ==
    Decided /\ FirstMatching # 0 /\ ~Table[FirstMatching].asynchronous_call

\* C8: when the first matching rule is not asynchronous, its handler is
\* called exactly once, on the calling thread, and has returned before the
\* dispatcher returns; no worker is created; the dispatcher returns true.
C8_InlineRunsOnCaller ==
    InlineCase =>
        /\ pc \in {"inline", "adapter", "idle"}
        /\ Len(hlog[cur]) = 1
        /\ hlog[cur][1].thread = "main"
        /\ hlog[cur][1].handler = Table[FirstMatching].handler
        /\ launches[cur] = 0
        /\ thread[cur] = "none"
        /\ jobs[cur] = NoJob
        /\ pc = "inline" => returned[cur] = <<>>
        /\ pc \in {"adapter", "idle"} =>
               (hstate[cur] = "returned" /\ returned[cur] = <<TRUE>>)

\* C8's case: a synchronous rule matches first, an asynchronous rule after
\* it matches too, and the dispatcher has returned.
C8_Witness ==
    /\ InlineCase
    /\ pc = "adapter"
    /\ Cardinality(Matching) = 2
    /\ \E i \in Matching : Table[i].asynchronous_call

\* C9: when the first matching rule is asynchronous and the worker is
\* created, the dispatcher's step to its return of true is enabled whatever
\* the worker and the handler are doing, and the value returned is true.
C9_ReturnsWithoutWaiting ==
    /\ pc = "detach" => ENABLED DispatchDetach
    /\ \A c \in Calls : outcome[c] = "launched" => returned[c] = <<TRUE>>

\* C9's case: the dispatcher has returned true and the handler it launched
\* has started and not finished.
C9_Witness ==
    \E c \in Calls :
        /\ outcome[c] = "launched"
        /\ returned[c] = <<TRUE>>
        /\ AdapterDone(c)
        /\ thread[c] = "running"
        /\ hstate[c] = "running"

\* C10: one caller data is allocated per dispatch to an asynchronous rule
\* and none otherwise; it is freed once, by the worker, after the handler
\* returned; when the adapter has returned for a call and no worker of it
\* is left, none remains allocated, a failed launch included.
C10_JobFreedOnEveryPath ==
    \A c \in Calls :
        /\ jobs[c].allocs <= 1
        /\ jobs[c].frees <= jobs[c].allocs
        /\ outcome[c] \in {"nomatch", "inline"} => jobs[c].allocs = 0
        /\ outcome[c] \in {"launched", "create_failed", "detach_failed"}
               => jobs[c].allocs = 1
        /\ jobs[c].frees = 1 => (hstate[c] = "returned" /\ thread[c] = "exited")
        /\ (AdapterDone(c) /\ NoWorker(c)) => jobs[c].frees = jobs[c].allocs

\* C11: g_dbus_get_property and g_dbus_get_managed_objects return NULL,
\* never a value, when the reply is an error or the send or the wait
\* failed, and the error the caller asked for is the peer's or the
\* transport's; they return a value only for a reply that is not an error.
C11_ErrorsReturnNull ==
    hres.fn \in {"get", "objects"} =>
        /\ hres.reply \in {"error_reply", "transport_failure"} =>
               /\ Len(hres.value_out) = 0
               /\ Len(hres.objects_out) = 0
               /\ hres.error_arg # NULL =>
                      hres.gerror = IF hres.reply = "error_reply"
                                    THEN "G_DBUS_ERROR" ELSE "G_IO_ERROR"
        /\ (Len(hres.value_out) > 0 \/ Len(hres.objects_out) > 0) =>
               (hres.reply = "method_return" /\ hres.gerror = NULL)

\* C11's case: g_dbus_get_property got an error reply for a property the
\* peer stores, and the caller gave an error pointer.
C11_Witness ==
    /\ hres.fn = "get"
    /\ hres.reply = "error_reply"
    /\ hres.error_arg # NULL
    /\ hres.gerror = "G_DBUS_ERROR"
    /\ Len(hres.value_out) = 0

\* C12: in each of the three request helpers, on every exit path, the
\* request message is released exactly once and the reply, when one was
\* received, exactly once; none is held after the helper returns.
C12_MessagesReleased ==
    hres.fn \in {"get", "set", "objects"} =>
        /\ hres.msg_new = 1
        /\ hres.msg_unref = 1
        /\ hres.rep_new = IF hres.reply = "transport_failure" THEN 0 ELSE 1
        /\ hres.rep_unref = hres.rep_new

\* C12's case: an error reply was received by g_dbus_set_property and
\* released.
C12_Witness ==
    /\ hres.fn = "set"
    /\ hres.reply = "error_reply"
    /\ hres.rep_new = 1
    /\ hres.rep_unref = 1
    /\ hres.msg_unref = 1

\* C14: a g_dbus_get_property, then a g_dbus_set_property of the value it
\* returned, then a g_dbus_get_property again, on one property, yield the
\* value of the first read, whatever its type.
C14_RoundTrip ==
    trip.step = 3 =>
        /\ trip.last = trip.first
        /\ trip.first \in PropValues

\* C14's case: the sequence has been completed on an integer property.
C14_Witness ==
    /\ trip.step = 3
    /\ trip.first = "i:1"
    /\ hres.fn = "get"
    /\ hres.property = trip.property

\* C15: a call of g_dbus_connection_emit_properties_changed makes exactly
\* one PropertiesChanged emission on the properties interface at the given
\* path, with the given interface name, the given changed properties and no
\* invalidated property, and returns what the emission returned.
C15_OneSignal ==
    hres.fn = "emit" =>
        /\ Len(hres.signals) = 1
        /\ hres.signals[1].destination = NULL
        /\ hres.signals[1].path = hres.path
        /\ hres.signals[1].interface_name = "org.freedesktop.DBus.Properties"
        /\ hres.signals[1].signal_name = "PropertiesChanged"
        /\ hres.signals[1].parameters[1] = hres.interface
        /\ hres.signals[1].parameters[2] = hres.props
        /\ hres.signals[1].parameters[3] = {}
        /\ hres.ret = (hres.reply = "emitted")

\* C15's case: the emission of {"Volume": 50} for org.x.Iface at /org/x.
C15_Witness ==
    /\ hres.fn = "emit"
    /\ hres.path = "/org/x"
    /\ hres.interface = "org.x.Iface"
    /\ hres.props = {<<"Volume", "i:50">>}
    /\ hres.ret

\* C16: for a reply that is not an error and lists no object,
\* g_dbus_get_managed_objects returns an iterator that is not NULL and yields
\* nothing, and sets no error.
C16_EmptyIsNotAnError ==
    (hres.fn = "objects" /\ hres.reply = "method_return") =>
        /\ Len(hres.objects_out) = 1
        /\ hres.objects_out[1] = hres.objects_in
        /\ hres.gerror = NULL

\* C16's case: the reply lists no object, and the caller gave an error
\* pointer.
C16_Witness ==
    /\ hres.fn = "objects"
    /\ hres.reply = "method_return"
    /\ hres.objects_in = <<>>
    /\ hres.error_arg # NULL
    /\ Len(hres.objects_out) = 1

\* --------------------------------------------------------------- C13
\* C13: the destroy notify attached to the userdata has run exactly once
\* when the skeleton has been finalized and not at all while it is alive,
\* whichever of the adapter's entry points (method_call, get_property,
\* set_property, get_properties) were entered before.
C13_DestructorOnceAtDestruction ==
    /\ skel.state = "alive" => skel.destroyed = 0 /\ Len(skel.data) = 1
    /\ skel.state = "finalized" => skel.destroyed = 1 /\ skel.data = <<>>

C13_Witness ==
    /\ skel.state = "finalized"
    /\ skel.destroyed = 1
    /\ {e.entry : e \in skel.entered} =
           {"method_call", "get_property", "set_property", "get_properties"}

\* --------------------------------------------------------------- C17
\* C17: every handler invocation made for a call, on the delivery thread or
\* on a worker, was given that call's invocation and the userdata stored in
\* the skeleton at construction, however many workers are in flight; and
\* what the adapter hands on is that userdata, never the skeleton.
C17_HandlerGetsItsOwnCall ==
    /\ \A c \in Calls : \A i \in 1..Len(hlog[c]) :
           /\ hlog[c][i].invocation = c
           /\ hlog[c][i].userdata = Userdata
    /\ \A c \in Calls : jobs[c].data # <<>> =>
           /\ jobs[c].data[1].invocation = c
           /\ jobs[c].data[1].userdata = Userdata
    /\ pc # "idle" => args.userdata = Userdata
    /\ \A e \in skel.entered : e.userdata = Userdata

\* Two detached calls in flight at once, both handlers entered, while the
\* delivery thread has gone on.
C17_Witness ==
    /\ MaxCalls >= 2
    /\ \A c \in 1..2 :
           /\ thread[c] = "running"
           /\ hstate[c] = "running"
           /\ hlog[c] = <<[handler |-> hlog[c][1].handler, thread |-> "worker",
                           invocation |-> c, userdata |-> Userdata]>>

\* --------------------------------------------------------------- C18
\* The handler of call c has been called on a worker, once.
WorkerRan(c) ==
    /\ Len(hlog[c]) = 1
    /\ hlog[c][1].thread = "worker"
    /\ hlog[c][1].invocation = c
    /\ \E i \in Rules : /\ Table[i].handler = hlog[c][1].handler
                        /\ IsAsync(Table[i])

\* C18: with workers scheduled fairly, a detached dispatch that returned
\* true is eventually followed by one call of the matched handler on its
\* worker, and a worker whose handler has returned eventually terminates;
\* no call ever has its handler called twice, and a launched job is never
\* dropped or cancelled.
C18_LaunchedJobRunsOnce ==
    /\ \A c \in Calls :
           (outcome[c] = "launched" /\ returned[c] = <<TRUE>>) ~> WorkerRan(c)
    /\ \A c \in Calls :
           (thread[c] = "running" /\ hstate[c] = "handled")
               ~> (thread[c] = "exited" /\ WorkerRan(c))
    /\ \A c \in Calls :
           [](/\ Len(hlog[c]) <= 1
              /\ outcome[c] = "launched" =>
                     thread[c] \in {"created", "running", "exited"})

\* A launched call whose handler ran once on the worker, which has ended.
C18_Witness ==
    \E c \in Calls :
        /\ outcome[c] = "launched"
        /\ returned[c] = <<TRUE>>
        /\ WorkerRan(c)
        /\ thread[c] = "exited"
        /\ jobs[c].data = <<>>

\* --------------------------------------------------------------- C19
\* C19: nothing in the dispatcher makes a detached handler wait for another
\* or the delivery thread wait for a detached handler: a created worker can
\* always call its handler, a running handler can always go on, a worker
\* whose handler returned can always end, and the delivery thread can
\* always take its next step, whatever the other threads are doing.
C19_NoMutualExclusion ==
    /\ \A c \in Calls :
           /\ thread[c] = "created" => ENABLED WorkerCallsHandler(c)
           /\ hstate[c] = "running" => ENABLED HandlerCompletes(c)
           /\ thread[c] = "running" /\ hstate[c] = "handled" =>
                  ENABLED WorkerFinish(c)
    /\ pc = "idle" /\ delivered < ncalls =>
           \A m \in Names : ENABLED interface_skeleton_ex_method_call("a", "a", "a", m)
    /\ pc = "dispatch" =>
           ENABLED (DispatchNoMatch \/ DispatchInline \/ DispatchCreate)
    /\ pc = "detach" => ENABLED DispatchDetach
    /\ pc = "adapter" => ENABLED MethodCallReturn

\* The detached handler of call 1 is still running while the handler of
\* call 2 runs inline on the delivery thread.
C19_Witness ==
    /\ MaxCalls >= 2
    /\ outcome[1] = "launched"
    /\ thread[1] = "running"
    /\ hstate[1] = "running"
    /\ hlog[1][1].thread = "worker"
    /\ pc = "inline"
    /\ cur = 2
    /\ hstate[2] = "running"
    /\ hlog[2][1].thread = "main"

\* Two detached handlers of different calls running at the same time.
TwoDetachedRunning ==
    \E c \in Calls, d \in Calls :
        /\ c # d
        /\ thread[c] = "running" /\ hstate[c] = "running"
        /\ thread[d] = "running" /\ hstate[d] = "running"

\* The detached handler of a later call has completed and its worker ended
\* while the detached handler of an earlier call has not yet completed.
CompletedOutOfOrder ==
    \E c \in Calls, d \in Calls :
        /\ c < d
        /\ outcome[c] = "launched" /\ outcome[d] = "launched"
        /\ thread[d] = "exited"
        /\ completions[d] = <<"handler">>
        /\ completions[c] = <<>>
        /\ thread[c] \in {"created", "running"}

====
